---- MODULE Spec2Model ----
(***************************************************************************)
(* US-Yield-Curve: the three Streamlit scripts app.py, app_new.py and      *)
(* app2.py.  One run of a script (top to bottom) is one interaction cycle. *)
(* st.session_state survives between runs; every widget call returns a     *)
(* value supplied by the user interface, which is the input of the run.    *)
(*                                                                         *)
(* Yields are integers in tenths of a percentage point (4.2 % is 42), so   *)
(* that sums and differences are exact.  Dates are day numbers.            *)
(***************************************************************************)
EXTENDS Integers, Sequences, FiniteSets, TLC

VARIABLES
    variant,        \* which script runs: "app", "app_new" or "app2"
    df,             \* the table load_data() returned
    date_index,     \* st.session_state.date_index (None: key not present)
    prev_clicked,   \* st.session_state["prev_clicked"] (absent reads as False)
    next_clicked,   \* st.session_state["next_clicked"] (absent reads as False)
    play,           \* st.session_state.play (None: key not present)
    widgets,        \* what the widget calls returned in the last run
    outcome,        \* how far the last run got
    df_filtered,    \* df_filtered of the last run (None: not produced)
    start_index,    \* proposed_index as first assigned in the last run
    committed,      \* proposed_index as committed to date_index in the last run
    rendered,       \* row positions drawn as the yield curve in the last run
    pc,             \* "idle"; in app.py's animation loop "anim" (at the top
                    \* of an iteration) or "sleep" (in time.sleep)
    i,              \* the animation loop's local i
    tabs,           \* what the Spread / Fly / Defly (Condor) tabs produced
    slider          \* the scrubber widget the last run created: the `value`
                    \* and max_value it was called with and the position it
                    \* holds (None: the last run did not reach the slider)

vars == <<variant, df, date_index, prev_clicked, next_clicked, play, widgets,
          outcome, df_filtered, start_index, committed, rendered, pc, i, tabs,
          slider>>

(***************************************************************************)
(* Bounds of the model.                                                    *)
(***************************************************************************)
MaxDate == 3        \* observation dates are drawn from 1..MaxDate
MaxFrames == 5      \* yield curves of one run that `rendered` records

(***************************************************************************)
(* Optional values: None is Python's absent value, Some(x) a present one.  *)
(***************************************************************************)
None == <<>>
Some(x) == <<x>>
Get(o) == o[1]

Max(a, b) == IF a >= b THEN a ELSE b
Min(a, b) == IF a <= b THEN a ELSE b

(***************************************************************************)
(* The data.                                                               *)
(***************************************************************************)
maturities == <<"2Y", "5Y", "10Y", "30Y">>
Tenors == {maturities[k] : k \in 1..Len(maturities)}

\* The yield of a tenor on a day: the spec's scenario rows on days 1 and 2
\* (2Y=4.0, 5Y=4.2, 10Y=4.3, 30Y=4.5, then each 0.1 higher), and a
\* tenor-dependent move afterwards so that the tenors are not parallel.
BaseYield(t) == CASE t = "2Y" -> 40 [] t = "5Y" -> 42 [] t = "10Y" -> 43 [] t = "30Y" -> 45
Twist(t) == CASE t = "2Y" -> 0 [] t = "5Y" -> 1 [] t = "10Y" -> 3 [] t = "30Y" -> 2
Yield(d, t) == BaseYield(t) + (d - 1) + ((d - 1) \div 2) * Twist(t)

Observation(d) == [Date |-> d, y |-> [t \in Tenors |-> Yield(d, t)]]

RECURSIVE SortedRows(_, _)
SortedRows(S, d) ==
    IF d > MaxDate THEN <<>>
    ELSE (IF d \in S THEN <<Observation(d)>> ELSE <<>>) \o SortedRows(S, d + 1)

\* load_data(): the rows whose date cell parses, sorted ascending by Date.
\* S is the set of days the spreadsheet has a row for.
load_data(S) == SortedRows(S, 1)

Sources == {S \in SUBSET (1..MaxDate) : S # {}}

DateSet(d) == {d[k].Date : k \in 1..Len(d)}
min_date(d) == CHOOSE x \in DateSet(d) : \A z \in DateSet(d) : x <= z
max_date(d) == CHOOSE x \in DateSet(d) : \A z \in DateSet(d) : x >= z

\* st.date_input(min_value=min_date, max_value=max_date): the dates it can return
DateInputs(d) == min_date(d)..max_date(d)

(***************************************************************************)
(* Date range filter.                                                      *)
(***************************************************************************)
InvalidRangeOff(start, end) == start > end + 1
InvalidRange(start, end) == start > end

InWindowStrict(r, start, end) == r.Date >= start /\ r.Date < end
InWindow(r, start, end) == r.Date >= start /\ r.Date <= end

RECURSIVE Select(_, _, _)
Select(d, start, end) ==
    IF d = <<>> THEN <<>>
    ELSE (IF InWindow(Head(d), start, end) THEN <<Head(d)>> ELSE <<>>)
         \o Select(Tail(d), start, end)

\* df[(Date >= start) & (Date <= end)].reset_index(drop=True)
Filter(d, start, end) == Select(d, start, end)

\* DataFrame.iloc[k]: position k, negative k counting from the end;
\* IndexError outside -n..n-1.
IlocOk(s, k) == -Len(s) <= k /\ k < Len(s)
IlocPos(s, k) == IF k >= 0 THEN k ELSE Len(s) + k

(***************************************************************************)
(* Derived series: a column of a table, and the Spread / Fly / Defly       *)
(* (Condor) expressions of each script.                                    *)
(***************************************************************************)
Col(d, t) == [k \in 1..Len(d) |-> d[k].y[t]]

\* app.py:197, app_new.py:145/152, app2.py:123   d[leg2] - d[leg1]
SpreadSeries(d, leg1, leg2) == [k \in 1..Len(d) |-> d[k].y[leg2] - d[k].y[leg1]]

\* app.py:214   d[fly1] + d[fly3] - 2 * d[fly2]
FlySeries_app(d, r1, r2, r3) ==
    [k \in 1..Len(d) |-> d[k].y[r1] + d[k].y[r3] - 2 * d[k].y[r2]]

\* app_new.py:164 and 171   2 * d[r2] - d[r1] - d[r3]
FlySeries_new(d, r1, r2, r3) ==
    [k \in 1..Len(d) |-> 2 * d[k].y[r2] - d[k].y[r1] - d[k].y[r3]]

\* app2.py:136   df[r1] + df[r3] - 2 * df[r2]
FlySeries_app2(d, r1, r2, r3) ==
    [k \in 1..Len(d) |-> d[k].y[r1] + d[k].y[r3] - 2 * d[k].y[r2]]

\* d[r4] - 3 * d[r3] + 3 * d[r2] - d[r1]
DeflySeries(d, r1, r2, r3, r4) ==
    [k \in 1..Len(d) |-> d[k].y[r4] - 3 * d[k].y[r3] + 3 * d[k].y[r2] - d[k].y[r1]]

\* len({...}) == arity: the selected tenors are pairwise distinct
Distinct(sel) == Cardinality({sel[k] : k \in 1..Len(sel)}) = Len(sel)

(***************************************************************************)
(* compute_stats (app_new.py).  A series holds tenths of a percentage      *)
(* point; round(x, 3) keeps thousandths of a percentage point, so a result *)
(* is the integer number of thousandths (4.067 % is 4067).  None is NaN,   *)
(* which pandas returns for an empty series (and for the sample standard   *)
(* deviation of fewer than two values).                                    *)
(*                                                                         *)
(* The code rounds a binary float.  Where the exact value lies strictly    *)
(* between two thousandths the float lies there too and the result is the  *)
(* nearer one.  Where the exact value is half-way between two thousandths  *)
(* the result depends on the side the float's representation and           *)
(* summation error falls on, which integer arithmetic does not determine:  *)
(* a statistic is then the pair of both neighbours, <<q, q + 1>>, "either  *)
(* of these", next to <<>> (NaN) and <<v>> (the value).                    *)
(***************************************************************************)
RECURSIVE Sum(_)
Sum(s) == IF s = <<>> THEN 0 ELSE Head(s) + Sum(Tail(s))

Abs(x) == IF x < 0 THEN -x ELSE x

SeqMin(s) == CHOOSE x \in {s[k] : k \in 1..Len(s)} : \A k \in 1..Len(s) : x <= s[k]
SeqMax(s) == CHOOSE x \in {s[k] : k \in 1..Len(s)} : \A k \in 1..Len(s) : x >= s[k]

\* round(): the integer nearest to num / den (den > 0); both neighbours
\* where num / den is half-way between them
RoundDiv(num, den) ==
    LET q == num \div den
        r == num % den
    IN  IF 2 * r < den THEN <<q>>
        ELSE IF 2 * r > den THEN <<q + 1>>
        ELSE <<q, q + 1>>

RECURSIVE SqrtFloorIn(_, _, _)
SqrtFloorIn(n, lo, hi) ==
    IF lo >= hi THEN lo
    ELSE LET mid == (lo + hi + 1) \div 2
         IN  IF mid * mid <= n THEN SqrtFloorIn(n, mid, hi)
             ELSE SqrtFloorIn(n, lo, mid - 1)
SqrtFloor(n) == SqrtFloorIn(n, 0, Min(n, 46340))

\* round(100 * sqrt(num / den)): with f = floor(2 * 100 * sqrt(num / den)),
\* the nearest integer is (f + 1) div 2; the value is half-way exactly when
\* 40000 * num / den is the square of the odd number f, and then both
\* neighbours are given
RoundSqrt100(num, den) ==
    LET q   == 40000 * (num \div den) + (40000 * (num % den)) \div den
        f   == SqrtFloor(q)
        tie == (40000 * (num % den)) % den = 0 /\ f * f = q /\ f % 2 = 1
        k   == f \div 2
    IN  IF tie THEN <<k, k + 1>> ELSE <<(f + 1) \div 2>>

compute_stats(s) ==
    LET n == Len(s)
        S == Sum(s)
        SS == n * Sum([k \in 1..n |-> s[k] * s[k]]) - S * S
    IN  [Mean   |-> IF n = 0 THEN None ELSE RoundDiv(100 * S, n),
         StdDev |-> IF n < 2 THEN None
                    ELSE RoundSqrt100(SS, n * (n - 1)),
         MeanAbsDev |-> IF n = 0 THEN None
                        ELSE RoundDiv(100 * Sum([k \in 1..n |-> Abs(n * s[k] - S)]),
                                      n * n),
         Min |-> IF n = 0 THEN None ELSE Some(100 * SeqMin(s)),
         Max |-> IF n = 0 THEN None ELSE Some(100 * SeqMax(s))]

\* df[(Date >= stat_start) & (Date <= stat_end)]: no ordering check on the
\* statistics window
stat_df(d, win) == Filter(d, win[1], win[2])

(***************************************************************************)
(* What a tab produced: a plotted series (with statistics in app_new.py),  *)
(* or the st.warning of its else branch.                                   *)
(***************************************************************************)
Chart(series, stats) == [out |-> "series", series |-> Some(series), stats |-> stats]
Warning == [out |-> "warning", series |-> None, stats |-> None]

\* app.py: Spread, Fly and Defly tabs
Tabs_app(w, filt) ==
    [spread |-> IF w.spread[1] # w.spread[2]
                THEN Chart(SpreadSeries(filt, w.spread[1], w.spread[2]), None)
                ELSE Warning,
     fly    |-> IF Distinct(w.fly)
                THEN Chart(FlySeries_app(filt, w.fly[1], w.fly[2], w.fly[3]), None)
                ELSE Warning,
     defly  |-> IF Distinct(w.defly)
                THEN Chart(DeflySeries(filt, w.defly[1], w.defly[2], w.defly[3], w.defly[4]), None)
                ELSE Warning]

\* app_new.py: statistics of the main tab, one record per maturity
MainStats_new(w) ==
    [m \in Tenors |-> compute_stats(Col(stat_df(df, w.stat.main), m))]

\* app_new.py: Outright, Spread, Fly and Condor tabs
Tabs_new(w, filt) ==
    [main_stats |-> MainStats_new(w),
     outright |-> Chart(Col(filt, w.outright),
                        Some(compute_stats(Col(stat_df(df, w.stat.outright), w.outright)))),
     spread |-> IF w.spread[1] # w.spread[2]
                THEN Chart(SpreadSeries(filt, w.spread[1], w.spread[2]),
                           Some(compute_stats(SpreadSeries(stat_df(df, w.stat.spread),
                                                           w.spread[1], w.spread[2]))))
                ELSE Warning,
     fly    |-> IF Distinct(w.fly)
                THEN Chart(FlySeries_new(filt, w.fly[1], w.fly[2], w.fly[3]),
                           Some(compute_stats(FlySeries_new(stat_df(df, w.stat.fly),
                                                            w.fly[1], w.fly[2], w.fly[3]))))
                ELSE Warning,
     defly  |-> IF Distinct(w.defly)
                THEN Chart(DeflySeries(filt, w.defly[1], w.defly[2], w.defly[3], w.defly[4]),
                           Some(compute_stats(DeflySeries(stat_df(df, w.stat.condor),
                                      w.defly[1], w.defly[2], w.defly[3], w.defly[4]))))
                ELSE Warning]

\* sorted(maturities): Python orders the tenor strings character by character
SortedTenors == <<"10Y", "2Y", "30Y", "5Y">>
IsMember(T, t) == t \in T
RECURSIVE SortedTuple(_, _)
SortedTuple(T, order) ==
    IF order = <<>> THEN <<>>
    ELSE (IF IsMember(T, Head(order)) THEN <<Head(order)>> ELSE <<>>)
         \o SortedTuple(T, Tail(order))

\* app2.py: every pair (a before b in maturities), every sorted triple and
\* the sorted quadruple; the loops plot one series each
pairs == {<<maturities[q[1]], maturities[q[2]]>> :
             q \in {q \in (1..Len(maturities)) \X (1..Len(maturities)) : q[1] < q[2]}}
fly_combos == {SortedTuple(T, SortedTenors) : T \in {U \in SUBSET Tenors : Cardinality(U) = 3}}
defly_combos == {SortedTuple(T, SortedTenors) : T \in {U \in SUBSET Tenors : Cardinality(U) = 4}}

Tabs_app2(d) ==
    [spread |-> {[spec |-> c, res |-> Chart(SpreadSeries(d, c[1], c[2]), None)] : c \in pairs},
     fly    |-> {[spec |-> c, res |-> Chart(FlySeries_app2(d, c[1], c[2], c[3]), None)] : c \in fly_combos},
     defly  |-> {[spec |-> c, res |-> Chart(DeflySeries(d, c[1], c[2], c[3], c[4]), None)] : c \in defly_combos}]

(***************************************************************************)
(* Navigation cursor.                                                      *)
(***************************************************************************)
PrevIndex(c) == Max(0, c - 1)
NextIndex(c, N) == Min(N - 1, c + 1)

\* the two `if st.button(...)` blocks, Previous first
Buttons(c, N, prev, next) ==
    LET p1 == IF prev THEN PrevIndex(c) ELSE c
    IN  IF next THEN NextIndex(p1, N) ELSE p1

\* session_state["prev_clicked"] / ["next_clicked"] after the two blocks
PrevFlag(prev, next, stored) == IF next THEN FALSE ELSE IF prev THEN TRUE ELSE stored
NextFlag(prev, next, stored) == IF next THEN TRUE ELSE IF prev THEN FALSE ELSE stored

\* `if selected and not prev_clicked and not next_clicked`
ClickOverrides(sel, pf, nf) == sel # None /\ ~pf /\ ~nf

\* app.py "Initial state": also resets a cursor that is >= len(df_filtered)
Reclamp_app(stored, N) ==
    IF stored = None \/ Get(stored) >= N THEN N - 1 ELSE Get(stored)

\* app_new.py and app2.py: only a missing cursor is initialised
InitIndex_new(stored, N) == IF stored = None THEN N - 1 ELSE Get(stored)
InitIndex_app2(stored, N) == IF stored = None THEN N - 1 ELSE Get(stored)

\* proposed_index just before it is committed
Propose_app(w, c, N) ==
    LET b  == Buttons(c, N, w.prev_button, w.next_button)
        pf == PrevFlag(w.prev_button, w.next_button, prev_clicked)
        nf == NextFlag(w.prev_button, w.next_button, next_clicked)
    IN  IF ClickOverrides(w.selected, pf, nf) THEN Get(w.selected) ELSE b

Propose_new(w, c, N) ==
    LET b  == Buttons(c, N, w.prev_button, w.next_button)
        pf == PrevFlag(w.prev_button, w.next_button, prev_clicked)
        nf == NextFlag(w.prev_button, w.next_button, next_clicked)
    IN  IF ClickOverrides(w.selected, pf, nf) THEN Get(w.selected) ELSE b

\* app.py Play / Pause buttons and the default of session_state.play
PlayState(w, stored) ==
    LET a == IF w.play_button THEN Some(TRUE) ELSE stored
        b == IF w.pause_button THEN Some(FALSE) ELSE a
    IN  IF b = None THEN FALSE ELSE Get(b)

\* st.slider(min_value=0, max_value=N-1, value=date_index, key="scrubber").
\* The widget of a run is the widget of the run before when it is called
\* with the same parameters (min_value is fixed, so: the same `value` and
\* max_value); it then returns the position it holds, which is the one the
\* user dragged it to, else the one it returned before.  Called with other
\* parameters, or after a run that did not reach it, it is a new widget and
\* returns `value` (a drag of the old widget is lost).  The slider widens
\* its range to hold a `value` outside min_value..max_value.
SameSlider(kept, value, N) ==
    kept # None /\ Get(kept).value = value /\ Get(kept).max = N - 1
Scrubber(w, kept, value, N) ==
    IF ~SameSlider(kept, value, N) THEN value
    ELSE IF w.scrubber # None THEN Get(w.scrubber)
    ELSE Get(kept).pos
SliderState(value, N, pos) == Some([value |-> value, max |-> N - 1, pos |-> pos])

\* st.progress(i / (len(df_filtered) - 1)): the division fails for a table
\* of one row; st.progress accepts a fraction within 0.0..1.0 only
ProgressDivOk(N) == N - 1 # 0
ProgressOk(k, N) == 0 <= k /\ k <= N - 1

(***************************************************************************)
(* One run of a script, as the state it leaves.                            *)
(***************************************************************************)
\* a run that ends before it read or wrote the cursor
Halted(how) ==
    [date_index |-> date_index, prev_clicked |-> prev_clicked,
     next_clicked |-> next_clicked, play |-> play, outcome |-> how,
     df_filtered |-> None, start_index |-> None, committed |-> None,
     rendered |-> <<>>, pc |-> "idle", i |-> 0, tabs |-> None, slider |-> None]

\* a run that got past the commit of proposed_index
Ran(how, cursor, pl, filt, c0, p, drawn, where, ii, tb, sld) ==
    [date_index |-> Some(cursor), prev_clicked |-> FALSE, next_clicked |-> FALSE,
     play |-> pl, outcome |-> how, df_filtered |-> Some(filt),
     start_index |-> Some(c0), committed |-> Some(p), rendered |-> drawn,
     pc |-> where, i |-> ii, tabs |-> tb, slider |-> sld]

Run_app(w) ==
    IF InvalidRange(w.start_date, w.end_date) THEN Halted("stopped")
    ELSE
    LET filt == Filter(df, w.start_date, w.end_date)
        N    == Len(filt)
        c0   == Reclamp_app(date_index, N)
        p    == Propose_app(w, c0, N)
        pl   == PlayState(w, play)
        sl   == Scrubber(w, slider, p, N)
        sld  == SliderState(p, N, sl)
    IN  IF ~IlocOk(filt, p)
        THEN Ran("IndexError", p, play, filt, c0, p, <<>>, "idle", 0, None, None)
        ELSE IF pl
        THEN Ran("animating", sl, Some(pl), filt, c0, p,
                 <<IlocPos(filt, p)>>, "anim", sl, None, sld)
        ELSE Ran("ok", sl, Some(pl), filt, c0, p,
                 <<IlocPos(filt, p)>>, "idle", 0, Some(Tabs_app(w, filt)), sld)

Run_new(w) ==
    IF InvalidRange(w.start_date, w.end_date) THEN Halted("stopped")
    ELSE
    LET filt == Filter(df, w.start_date, w.end_date)
        N    == Len(filt)
        c0   == InitIndex_new(date_index, N)
        p    == Propose_new(w, c0, N)
    IN  IF ~IlocOk(filt, p)
        THEN Ran("IndexError", p, play, filt, c0, p, <<>>, "idle", 0, None, None)
        ELSE Ran("ok", p, play, filt, c0, p, <<IlocPos(filt, p)>>, "idle", 0,
                 Some(Tabs_new(w, filt)), None)

\* app2.py: "Step 4" calls st.button with the labels "Step 3" has used, and
\* without keys; Streamlit refuses the second widget (DuplicateWidgetID), so
\* every run ends at line 92: the cursor is initialised when missing, the
\* flags are reset, proposed_index is never committed, nothing is drawn.
Run_app2(w) ==
    LET N  == Len(df)
        c0 == InitIndex_app2(date_index, N)
    IN  [date_index |-> Some(c0), prev_clicked |-> FALSE, next_clicked |-> FALSE,
         play |-> play, outcome |-> "DuplicateWidgetID", df_filtered |-> Some(df),
         start_index |-> Some(c0), committed |-> None, rendered |-> <<>>,
         pc |-> "idle", i |-> 0, tabs |-> None, slider |-> None]

RunScript(w) ==
    CASE variant = "app"     -> Run_app(w)
      [] variant = "app_new" -> Run_new(w)
      [] variant = "app2"    -> Run_app2(w)

Leave(w, r) ==
    /\ widgets' = w
    /\ date_index' = r.date_index
    /\ prev_clicked' = r.prev_clicked
    /\ next_clicked' = r.next_clicked
    /\ play' = r.play
    /\ outcome' = r.outcome
    /\ df_filtered' = r.df_filtered
    /\ start_index' = r.start_index
    /\ committed' = r.committed
    /\ rendered' = r.rendered
    /\ pc' = r.pc
    /\ i' = r.i
    /\ tabs' = r.tabs
    /\ slider' = r.slider
    /\ UNCHANGED <<variant, df>>

\* one interaction cycle: the script runs top to bottom on the widget values w
Cycle(w) == \E r \in {RunScript(w)} : Leave(w, r)

\* app.py "Animate Yield Curves", first half of an iteration of the while
\* loop (entered with i < len(df_filtered)): the cursor is written, the row
\* is read and drawn, the progress bar is set, and the script sleeps.
\* `rendered` records the first MaxFrames curves of the run; the loop itself
\* goes on for as long as the code's does.
AnimFrame ==
    /\ pc = "anim"
    /\ LET filt == Get(df_filtered)
           N    == Len(filt)
           step == IF ~ProgressDivOk(N)
                   THEN [pc |-> "idle", out |-> "ZeroDivisionError"]
                   ELSE IF ~ProgressOk(i, N)
                   THEN [pc |-> "idle", out |-> "StreamlitAPIException"]
                   ELSE [pc |-> "sleep", out |-> "animating"]
       IN  /\ date_index' = Some(i)
           /\ rendered' = IF Len(rendered) < MaxFrames
                          THEN Append(rendered, IlocPos(filt, i))
                          ELSE rendered
           /\ pc' = step.pc
           /\ outcome' = step.out
    /\ UNCHANGED <<variant, df, prev_clicked, next_clicked, play, widgets,
                   df_filtered, start_index, committed, i, tabs, slider>>

\* second half of the iteration, after time.sleep: the play test, i += 1,
\* the wrap (Loop) or play = False, and the loop test; the tabs below the
\* loop run once it is left.
AnimAdvance ==
    /\ pc = "sleep"
    /\ LET filt == Get(df_filtered)
           N    == Len(filt)
           i1   == i + 1
           wrap == i1 >= N
           i2   == IF wrap /\ widgets.loop THEN 0 ELSE i1
           pl2  == IF wrap /\ ~widgets.loop THEN Some(FALSE) ELSE play
           left == [pc |-> "idle", out |-> "ok", tabs |-> Some(Tabs_app(widgets, filt))]
           step == IF play # Some(TRUE)
                   THEN left @@ [i |-> i, pl |-> play]
                   ELSE IF i2 < N
                   THEN [pc |-> "anim", i |-> i2, pl |-> pl2, out |-> "animating",
                         tabs |-> None]
                   ELSE left @@ [i |-> i2, pl |-> pl2]
       IN  /\ pc' = step.pc
           /\ i' = step.i
           /\ play' = step.pl
           /\ outcome' = step.out
           /\ tabs' = step.tabs
    /\ UNCHANGED <<variant, df, date_index, prev_clicked, next_clicked, widgets,
                   df_filtered, start_index, committed, rendered, slider>>

(***************************************************************************)
(* The user interface: what the widgets return in a run.                   *)
(***************************************************************************)
StatTabs == {"main", "outright", "spread", "fly", "condor"}

\* every widget at the value its call gives as default
DefaultWidgets(d) ==
    [start_date |-> min_date(d), end_date |-> max_date(d),
     selected |-> None, prev_button |-> FALSE, next_button |-> FALSE,
     play_button |-> FALSE, pause_button |-> FALSE, scrubber |-> None,
     loop |-> FALSE,
     spread |-> <<maturities[1], maturities[2]>>,
     fly |-> <<maturities[1], maturities[2], maturities[3]>>,
     defly |-> <<maturities[1], maturities[2], maturities[3], maturities[4]>>,
     outright |-> maturities[1],
     stat |-> [t \in StatTabs |-> <<min_date(d), max_date(d)>>]]

\* buttons are True only in the run their press starts; no click, no drag
Quiet(w) ==
    [w EXCEPT !.selected = None, !.prev_button = FALSE, !.next_button = FALSE,
              !.play_button = FALSE, !.pause_button = FALSE, !.scrubber = None]

\* the length of the series the chart of the run shows
ChartLen(w) ==
    IF variant = "app2" THEN Len(df)
    ELSE Len(Filter(df, w.start_date, w.end_date))

\* plotly_events: no click, or the clicked point of the chart; the component
\* keeps returning a click in later runs while the chart is the same
Clicks(w) == {None} \cup {Some(k) : k \in 0..(ChartLen(w) - 1)}

\* the first run of a session: no widget has been touched yet
Started == outcome # "init"
FirstRun ==
    /\ ~Started
    /\ Cycle(DefaultWidgets(df))

ChangeWindow ==
    /\ Started
    /\ variant # "app2"
    /\ \E s, e \in DateInputs(df) :
          Cycle([Quiet(widgets) EXCEPT !.start_date = s, !.end_date = e])

PressPrevious ==
    /\ Started
    /\ \E sel \in Clicks(widgets) :
          Cycle([Quiet(widgets) EXCEPT !.prev_button = TRUE, !.selected = sel])

PressNext ==
    /\ Started
    /\ \E sel \in Clicks(widgets) :
          Cycle([Quiet(widgets) EXCEPT !.next_button = TRUE, !.selected = sel])

ChartClick ==
    /\ Started
    /\ \E sel \in Clicks(widgets) \ {None} :
          Cycle([Quiet(widgets) EXCEPT !.selected = sel])

\* the user drags the slider the last run created, within its range
MoveScrubber ==
    /\ Started
    /\ variant = "app"
    /\ slider # None
    /\ \E s \in Min(0, Get(slider).value)..Get(slider).max, sel \in Clicks(widgets) :
          Cycle([Quiet(widgets) EXCEPT !.scrubber = Some(s), !.selected = sel])

PressPlay ==
    /\ Started
    /\ variant = "app"
    /\ \E sel \in Clicks(widgets) :
          Cycle([Quiet(widgets) EXCEPT !.play_button = TRUE, !.selected = sel])

PressPause ==
    /\ Started
    /\ variant = "app"
    /\ \E sel \in Clicks(widgets) :
          Cycle([Quiet(widgets) EXCEPT !.pause_button = TRUE, !.selected = sel])

ToggleLoop ==
    /\ Started
    /\ variant = "app"
    /\ \E sel \in Clicks(widgets) :
          Cycle([Quiet(widgets) EXCEPT !.loop = ~widgets.loop, !.selected = sel])

Init ==
    /\ variant \in {"app", "app_new", "app2"}
    /\ \E S \in Sources : df = load_data(S)
    /\ date_index = None
    /\ prev_clicked = FALSE
    /\ next_clicked = FALSE
    /\ play = None
    /\ widgets = DefaultWidgets(df)
    /\ outcome = "init"
    /\ df_filtered = None
    /\ start_index = None
    /\ committed = None
    /\ rendered = <<>>
    /\ pc = "idle"
    /\ i = 0
    /\ tabs = None
    /\ slider = None

Next ==
    \/ FirstRun
    \/ ChangeWindow
    \/ PressPrevious
    \/ PressNext
    \/ ChartClick
    \/ MoveScrubber
    \/ PressPlay
    \/ PressPause
    \/ ToggleLoop
    \/ AnimFrame
    \/ AnimAdvance

Spec == Init /\ [][Next]_vars

\* The script runs on by itself: once the while loop is entered its next
\* iteration is taken and time.sleep returns.  Nothing obliges the user to
\* touch a widget.
LiveSpec == Init /\ [][Next]_vars /\ WF_vars(AnimFrame) /\ WF_vars(AnimAdvance)

(***************************************************************************)
(* The tabs: the same scripts, driven by the select boxes and the          *)
(* statistics windows, one widget changed per run.  The widgets of one tab *)
(* are changed while every other widget is at its default.                 *)
(***************************************************************************)
AtDefault(w) == w = DefaultWidgets(df)

SelectSpread ==
    /\ Started
    /\ variant # "app2"
    /\ AtDefault([widgets EXCEPT !.spread = DefaultWidgets(df).spread])
    /\ \E k \in 1..2, t \in Tenors : Cycle([widgets EXCEPT !.spread[k] = t])

SelectFly ==
    /\ Started
    /\ variant # "app2"
    /\ AtDefault([widgets EXCEPT !.fly = DefaultWidgets(df).fly])
    /\ \E k \in 1..3, t \in Tenors : Cycle([widgets EXCEPT !.fly[k] = t])

SelectDefly ==
    /\ Started
    /\ variant # "app2"
    /\ AtDefault([widgets EXCEPT !.defly = DefaultWidgets(df).defly])
    /\ \E k \in 1..4, t \in Tenors : Cycle([widgets EXCEPT !.defly[k] = t])

SelectOutright ==
    /\ Started
    /\ variant = "app_new"
    /\ AtDefault([widgets EXCEPT !.outright = DefaultWidgets(df).outright])
    /\ \E t \in Tenors : Cycle([widgets EXCEPT !.outright = t])

ChangeStatsWindow ==
    /\ Started
    /\ variant = "app_new"
    /\ \E tab \in StatTabs :
          /\ AtDefault([widgets EXCEPT !.stat[tab] = DefaultWidgets(df).stat[tab]])
          /\ \E s, e \in DateInputs(df) : Cycle([widgets EXCEPT !.stat[tab] = <<s, e>>])

ChangeChartWindow ==
    /\ Started
    /\ variant # "app2"
    /\ AtDefault([widgets EXCEPT !.start_date = min_date(df), !.end_date = max_date(df)])
    /\ \E s, e \in DateInputs(df) :
          Cycle([widgets EXCEPT !.start_date = s, !.end_date = e])

Rerun ==
    /\ Started
    /\ variant = "app2"
    /\ \E sel \in Clicks(widgets) : Cycle([Quiet(widgets) EXCEPT !.selected = sel])

NextTabs ==
    \/ FirstRun
    \/ SelectSpread
    \/ SelectFly
    \/ SelectDefly
    \/ SelectOutright
    \/ ChangeStatsWindow
    \/ ChangeChartWindow
    \/ Rerun

TabSpec == Init /\ [][NextTabs]_vars

(***************************************************************************)
(* Properties.                                                             *)
(***************************************************************************)
\* the series the last run's cursor indexes, and whether the last step was a
\* run of the script (an animation frame leaves at least two drawn curves)
ChartSeries == Get(df_filtered)
N_chart == Len(ChartSeries)
NoButton == ~widgets.prev_button /\ ~widgets.next_button
CycleEnded == pc = "idle" /\ outcome # "init"

\* C1: at the end of every cycle on a series of length N >= 1 the stored
\* cursor exists and is at most N - 1, also right after the window was
\* narrowed below the stored cursor.  (This is the upper half of
\* 0 <= date_index <= N - 1, the half the claim singles out; the lower half
\* fails only once a window without rows has stored -1.)
ClaimC1 ==
    (df_filtered # None /\ N_chart >= 1)
        => (date_index # None /\ Get(date_index) <= N_chart - 1)

\* the cursor the navigation step of the last run left: the value it
\* committed, or the stored cursor where the run ended before the commit
Moved == IF committed # None THEN Get(committed) ELSE Get(date_index)

\* C2: in a cycle with a Previous or Next press and a chart click value both
\* present, the cursor the cycle leaves is the button's result from the
\* cursor the cycle started with, and the click is ignored (every script).
ClaimC2 ==
    (start_index # None /\ widgets.selected # None /\ ~NoButton)
        => Moved = (IF widgets.prev_button
                    THEN (IF Get(start_index) - 1 >= 0 THEN Get(start_index) - 1 ELSE 0)
                    ELSE (IF Get(start_index) + 1 <= N_chart - 1
                          THEN Get(start_index) + 1 ELSE N_chart - 1))

\* C3: a Previous press alone moves the cursor from c to max(0, c - 1) and a
\* Next press alone to min(N - 1, c + 1): one step, never none where a step
\* is possible, never two (every script).
ClaimC3 ==
    (start_index # None /\ widgets.selected = None /\ ~NoButton)
        => Moved = (IF widgets.prev_button
                    THEN (IF Get(start_index) - 1 >= 0 THEN Get(start_index) - 1 ELSE 0)
                    ELSE (IF Get(start_index) + 1 <= N_chart - 1
                          THEN Get(start_index) + 1 ELSE N_chart - 1))

\* C4: in a cycle of app.py or app_new.py with a chart click on point i and
\* no button press the cursor becomes exactly i: once the cycle has ended,
\* the stored cursor is i.
ClaimC4 ==
    (variant # "app2" /\ CycleEnded /\ start_index # None /\ NoButton
       /\ widgets.selected # None)
        => date_index = widgets.selected

\* C4, last sentence: a click value is applied only in the cycle in which
\* the click happened: a run that is not started by a click on the chart
\* and has no button press commits the cursor it started with.
ClickOnlyOnce ==
    [][(variant # "app2" /\ ~ChartClick /\ Len(rendered') <= 1
          /\ committed' # None /\ ~widgets'.prev_button /\ ~widgets'.next_button)
          => committed' = start_index']_vars

\* C5: in the scripts that filter by a date window, a run starts from N - 1
\* when no cursor is stored or the stored cursor is >= N, and from the
\* stored cursor otherwise.
ClaimC5 ==
    [][(variant # "app2" /\ start_index' # None /\ Len(rendered') <= 1
          /\ Len(Get(df_filtered')) >= 1)
          => start_index' = Some(IF date_index = None \/ Get(date_index) >= Len(Get(df_filtered'))
                                 THEN Len(Get(df_filtered')) - 1
                                 ELSE Get(date_index))]_vars

\* C6: when a button press or a chart click was applied in a cycle, the
\* cursor stored at the end of the cycle (no animation running) is the value
\* the press or click produced; the slider does not replace it.
ClaimC6 ==
    (outcome = "ok" /\ Len(rendered) = 1 /\ (~NoButton \/ widgets.selected # None))
        => date_index = committed

\* C7: a run with start date after end date halts at once: no filtered
\* series, no tab output, no row drawn, nothing committed, and the stored
\* cursor, the button flags and the play flag are as before the run.
TheoremC7 ==
    [][(variant # "app2" /\ widgets'.start_date > widgets'.end_date /\ Len(rendered') <= 1)
          => /\ outcome' = "stopped"
             /\ df_filtered' = None
             /\ tabs' = None
             /\ rendered' = <<>>
             /\ committed' = None
             /\ date_index' = date_index
             /\ prev_clicked' = prev_clicked
             /\ next_clicked' = next_clicked
             /\ play' = play]_vars

\* C7: a run was halted by start > end while a cursor was stored
WitnessC7 ==
    /\ outcome = "stopped"
    /\ widgets.start_date > widgets.end_date
    /\ date_index # None
    /\ df_filtered = None

\* C8: the filtered series is exactly the rows of df dated within
\* [start, end], in df's order, df itself is never changed, and the full
\* window [min_date, max_date] gives df back.
RowsInWindow == {k \in 1..Len(df) : widgets.start_date <= df[k].Date /\ df[k].Date <= widgets.end_date}
KthInWindow(k) ==
    CHOOSE j \in RowsInWindow : Cardinality({m \in RowsInWindow : m <= j}) = k
FilterPost ==
    (variant # "app2" /\ df_filtered # None)
        => /\ N_chart = Cardinality(RowsInWindow)
           /\ \A k \in 1..N_chart : ChartSeries[k] = df[KthInWindow(k)]
           /\ (widgets.start_date = min_date(df) /\ widgets.end_date = max_date(df))
                 => ChartSeries = df
TheoremC8 == [][df' = df /\ FilterPost']_vars

\* C8: a window that keeps two of three rows, ending on the last date
WitnessC8 ==
    /\ variant # "app2"
    /\ df_filtered # None
    /\ Len(df) = 3
    /\ N_chart = 2
    /\ widgets.end_date = max_date(df)
    /\ ChartSeries[2] = df[3]

\* C9: every fly the program computes, plotted or summarised, in every
\* script, is value[t1] + value[t3] - 2 * value[t2] with t2 the centre
\* (for app2.py: every fly its "All Flies" tab is written to compute).
FlyConvention(d, c) == [k \in 1..Len(d) |-> d[k].y[c[1]] + d[k].y[c[3]] - 2 * d[k].y[c[2]]]
ClaimC9 ==
    (tabs # None \/ variant = "app2")
        => IF variant = "app2"
           THEN \A f \in Tabs_app2(df).fly : f.res.series = Some(FlyConvention(df, f.spec))
           ELSE Get(tabs).fly.out = "series"
                   => /\ Get(tabs).fly.series = Some(FlyConvention(ChartSeries, widgets.fly))
                      /\ variant = "app_new"
                            => Get(tabs).fly.stats =
                                  Some(compute_stats(FlyConvention(stat_df(df, widgets.stat.fly),
                                                                   widgets.fly)))

\* C10: a Spread, Fly or Condor selection that repeats a tenor ends the
\* derived-series computation in a ValidationError and yields no series and
\* no statistics.
HasRepeat(w) == ~Distinct(w.spread) \/ ~Distinct(w.fly) \/ ~Distinct(w.defly)
ClaimC10 ==
    (variant # "app2" /\ df_filtered # None /\ HasRepeat(widgets)
       /\ outcome \notin {"IndexError", "StreamlitAPIException", "ZeroDivisionError", "animating"})
        => /\ outcome = "ValidationError"
           /\ tabs = None

\* C11: a window without observations ends every dependent in an explicit
\* rejection.  For the chart window: the run reports EmptySeriesError, the
\* cursor is not assigned (it is never -1), no row is read or drawn and no
\* tab is computed.  For a statistics window of app_new.py: the run reports
\* EmptySeriesError and no statistics record is returned.
EmptyChartWindow == df_filtered # None /\ N_chart = 0
EmptyStatsWindow ==
    /\ variant = "app_new"
    /\ df_filtered # None
    /\ N_chart >= 1
    /\ \E t \in StatTabs : stat_df(df, widgets.stat[t]) = <<>>
ClaimC11 ==
    /\ date_index # Some(-1)
    /\ EmptyChartWindow
          => (outcome = "EmptySeriesError" /\ rendered = <<>> /\ tabs = None)
    /\ EmptyStatsWindow
          => (outcome = "EmptySeriesError" /\ tabs = None)

\* C12: when a cycle has ended, every yield curve it drew is the row at the
\* cursor the cycle stored last: no curve was drawn from a cursor value that
\* the same cycle replaced afterwards (by the slider sync or by a later
\* frame of the animation).
ClaimC12 ==
    (CycleEnded /\ date_index # None)
        => \A k \in 1..Len(rendered) :
              rendered[k] = IlocPos(ChartSeries, Get(date_index))

\* C13: every cycle terminates, a cycle with Play active and Loop on or off
\* included: a run never stays in the animation loop for ever, unless the
\* user keeps starting new runs (a widget event ends the run in progress
\* and starts the next, which draws at most one curve before its loop).
RunStarts == Len(rendered') <= 1
ClaimC13 == <>[](pc # "idle") => []<><<RunStarts>>_vars

\* C13, Loop off: an animation that was entered at cursor c and has ended
\* drew the rows c, c+1, ..., N-1 once each, in this order, and left
\* play = false and the cursor at N-1.
AnimationVisits ==
    (CycleEnded /\ Len(rendered) >= 2 /\ ~widgets.loop)
        => /\ outcome = "ok"
           /\ play = Some(FALSE)
           /\ date_index = Some(N_chart - 1)
           /\ rendered[Len(rendered)] = N_chart - 1
           /\ \A k \in 2..(Len(rendered) - 1) : rendered[k + 1] = rendered[k] + 1

====
